---- MODULE Spec2Model ----
(***************************************************************************)
(* Model of src/completeness_magnitude.py: class Catalog, its constructor  *)
(* and its two estimators, maximum_curvature and goodness_of_fit_test.     *)
(*                                                                         *)
(* Magnitudes and bin widths are integers counting hundredths of a         *)
(* magnitude unit (1.3 is 130, a bin width of 0.1 is 10).  A float that    *)
(* may hold something else than a number is a record: see Num, NaN, PosInf.*)
(*                                                                         *)
(* What the floating-point arithmetic of the build decides, and integers   *)
(* cannot reproduce, is a choice the model makes when the instance is      *)
(* constructed and keeps for the instance's lifetime:                      *)
(*   - the length np.arange computes from a float quotient (extra);        *)
(*   - the value of a residual that is a finite number (fit).              *)
(* Every other comparison is made on the exact decimal values.             *)
(* What the installed pandas decides (idxmax over a column with no value)  *)
(* is chosen in Init and never changes (allNaRaises).                      *)
(***************************************************************************)
EXTENDS Integers, Sequences, FiniteSets

VARIABLES
    phase,                          \* "new" | "constructed" | "failed" | "select" | "selected"
    error,                          \* exception raised by the constructor, or "none"
    catalog,                        \* self.catalog["Magnitude"], one entry per event
    delta_magnitude,                \* self.delta_magnitude
    magnitudes_in_catalog,          \* self.magnitudes_in_catalog
    cumulative_magnitude_frequency, \* self.cumulative_magnitude_frequency
    allNaRaises,                    \* installed pandas: idxmax of an all-NA column raises
    fit,                            \* finite residual value of each candidate (float arithmetic)
    mcResult,                       \* what the last maximum_curvature() call returned
    gfResult,                       \* what the last goodness_of_fit_test() call returned
    mcCalls,                        \* number of maximum_curvature() calls made
    gfCalls,                        \* number of goodness_of_fit_test() calls made
    seed,                           \* max_curvature_estimation of the last goodness_of_fit_test()
    residuals,                      \* residuals of the last goodness_of_fit_test()
    figures                         \* names of the figures saved so far

vars == <<phase, error, catalog, delta_magnitude, magnitudes_in_catalog,
          cumulative_magnitude_frequency, allNaRaises, fit, mcResult, gfResult,
          mcCalls, gfCalls, seed, residuals, figures>>

instance == <<catalog, delta_magnitude, magnitudes_in_catalog,
              cumulative_magnitude_frequency>>

(***************************************************************************)
(* Bounds of the model and the inputs it enumerates.                       *)
(***************************************************************************)
MaxEvents == 3

MaxCalls == 2

RawMagnitudes == {96, 100, 110, 130}

DeltaMagnitudes == {-10, 0, 10, 20}

(***************************************************************************)
(* Program constants.                                                      *)
(***************************************************************************)
NumCandidates == 15

Tenth == 10

LowResidual95 == 5

LowResidual90 == 10

(***************************************************************************)
(* Float values.                                                           *)
(***************************************************************************)
Num(v) == [kind |-> "num", v |-> v]

NaN == [kind |-> "nan", v |-> 0]

PosInf == [kind |-> "inf", v |-> 0]

\* A call that ended in exception e instead of returning a value.
Raised(e) == [kind |-> e, v |-> 0]

Exceptions == {"ValueError"}

NoCall == [kind |-> "nocall", v |-> 0]

(***************************************************************************)
(* Sequence helpers.                                                       *)
(***************************************************************************)
RECURSIVE SumSeq(_)
SumSeq(s) == IF s = <<>> THEN 0 ELSE Head(s) + SumSeq(Tail(s))

\* The members of a set of numbers in increasing order.
RECURSIVE SortedSeq(_)
SortedSeq(S) ==
    IF S = {} THEN <<>>
    ELSE LET m == CHOOSE x \in S : \A y \in S : x <= y
         IN <<m>> \o SortedSeq(S \ {m})

SeqsUpTo(S, n) == UNION {[1..k -> S] : k \in 0..n}

\* The catalogs of at most MaxEvents events.  No code of the class reads the order
\* of the rows, so one order per collection of magnitudes is enumerated.
Catalogs ==
    {[i \in DOMAIN s |-> Num(s[i])] :
        s \in {t \in SeqsUpTo(RawMagnitudes, MaxEvents) :
                  \A i \in 1..(Len(t) - 1) : t[i] <= t[i + 1]}}

(***************************************************************************)
(* Catalog.__init__                                                        *)
(***************************************************************************)
\* np.round(n / d) for d # 0: the nearest integer, a half going to the even one.
RoundHalfEven(n, d) ==
    LET nn == IF d < 0 THEN -n ELSE n
        dd == IF d < 0 THEN -d ELSE d
        fl == IF nn >= 0 THEN nn \div dd ELSE -((-nn + dd - 1) \div dd)
        twice == 2 * (nn - fl * dd)
    IN IF twice < dd THEN fl
       ELSE IF twice > dd THEN fl + 1
       ELSE IF fl % 2 = 0 THEN fl ELSE fl + 1

\* np.round(self.catalog["Magnitude"] / delta_magnitude) * delta_magnitude.
\* With delta_magnitude = 0 the quotient is inf (or nan) and the product nan.
RoundedCatalog(cat, dm) ==
    [i \in DOMAIN cat |->
        IF dm = 0 THEN NaN ELSE Num(RoundHalfEven(cat[i].v, dm) * dm)]

\* self.catalog.groupby("Magnitude").count().index: the distinct magnitudes in
\* increasing order; groupby drops the nan keys.
GroupIndex(cat) ==
    SortedSeq({cat[i].v : i \in {j \in DOMAIN cat : cat[j].kind = "num"}})

\* self.catalog.groupby("Magnitude").count()["DateTime"], in the order of GroupIndex
\* (every event has a DateTime).
GroupCount(cat) ==
    LET idx == GroupIndex(cat)
    IN [k \in DOMAIN idx |-> Cardinality({i \in DOMAIN cat : cat[i] = Num(idx[k])})]

\* The length np.arange(start, stop, step) would have in exact arithmetic.
ArangeExactLength(start, stop, step) ==
    LET q == (stop - start) \div step
    IN IF q * step = stop - start THEN q ELSE q + 1

\* np.arange(start, stop, step): ceil((stop - start) / step) values start + i * step.
\* The quotient is a float: when it lands just above the exact integer the ceiling
\* counts one more value (extra = 1).
Arange(start, stop, step, extra) ==
    LET n == ArangeExactLength(start, stop, step) + extra
    IN IF n <= 0 THEN <<>> ELSE [i \in 1..n |-> start + (i - 1) * step]

\* len(self.catalog[self.catalog["Magnitude"] > magnitude - self.delta_magnitude / 2])
CountAbove(cat, magnitude, dm) ==
    Cardinality({i \in DOMAIN cat :
                    cat[i].kind = "num" /\ 2 * cat[i].v > 2 * magnitude - dm})

CumulativeMagnitudeFrequency(cat, grid, dm) ==
    [k \in DOMAIN grid |-> CountAbove(cat, grid[k], dm)]

FitLevels == {3, 8, 12}

FitCuts == {1, 8}

\* The finite residuals the float arithmetic may produce, per candidate.
FitProfiles ==
    {[i \in 1..NumCandidates |-> IF i >= k THEN v ELSE 12] : k \in FitCuts, v \in FitLevels}

\* Mutant of Construct: an empty index is given an empty grid instead of being
\* indexed, and the instance is built.
ConstructEmptyGrid ==
    /\ phase = "new"
    /\ LET rounded == RoundedCatalog(catalog, delta_magnitude)
           idx == GroupIndex(rounded)
       IN /\ catalog' = rounded
          /\ \E extra \in {0, 1} :
                LET grid == IF idx = <<>> THEN <<>>
                            ELSE Arange(idx[1], idx[Len(idx)] + delta_magnitude,
                                        delta_magnitude, extra)
                IN /\ magnitudes_in_catalog' = grid
                   /\ cumulative_magnitude_frequency' =
                          CumulativeMagnitudeFrequency(rounded, grid, delta_magnitude)
                   /\ fit' \in FitProfiles
                   /\ phase' = "constructed"
                   /\ error' = "none"
    /\ UNCHANGED <<delta_magnitude, allNaRaises, mcResult, gfResult, mcCalls, gfCalls,
                   seed, residuals, figures>>

Construct ==
    /\ phase = "new"
    /\ LET rounded == RoundedCatalog(catalog, delta_magnitude)
           idx == GroupIndex(rounded)
       IN /\ catalog' = rounded
          /\ IF idx = <<>>
             THEN \* .index[0] of an empty index
                  /\ phase' = "failed"
                  /\ error' = "IndexError"
                  /\ UNCHANGED <<magnitudes_in_catalog, cumulative_magnitude_frequency, fit>>
             ELSE \E extra \in {0, 1} :
                  LET grid == Arange(idx[1], idx[Len(idx)] + delta_magnitude,
                                     delta_magnitude, extra)
                  IN /\ magnitudes_in_catalog' = grid
                     /\ cumulative_magnitude_frequency' =
                            CumulativeMagnitudeFrequency(rounded, grid, delta_magnitude)
                     /\ fit' \in FitProfiles
                     /\ phase' = "constructed"
                     /\ error' = "none"
    /\ UNCHANGED <<delta_magnitude, allNaRaises, mcResult, gfResult, mcCalls, gfCalls,
                   seed, residuals, figures>>

(***************************************************************************)
(* Catalog.maximum_curvature                                               *)
(***************************************************************************)
\* Series.cumsum() of a column of counts.
CumSum(counts) == [k \in DOMAIN counts |-> SumSeq(SubSeq(counts, 1, k))]

\* Series.diff(): each value minus the one before it; the first has none before
\* it and is nan.
Diff(series) ==
    [k \in DOMAIN series |-> IF k = 1 THEN NaN ELSE Num(series[k] - series[k - 1])]

\* self.catalog.groupby("Magnitude").count()["DateTime"].cumsum().diff()
DistributionDerivative(cat) == Diff(CumSum(GroupCount(cat)))

\* Series.idxmax(): the label of the first occurrence of the largest value, nan
\* values skipped.  With no value left, pandas before 3.0 returns nan and pandas
\* from 3.0 on raises ValueError.
IdxMax(labels, series, raises) ==
    LET valued == {k \in DOMAIN series : series[k].kind = "num"}
    IN IF valued = {}
       THEN IF raises THEN Raised("ValueError") ELSE NaN
       ELSE LET first == CHOOSE k \in valued :
                            /\ \A j \in valued : series[j].v <= series[k].v
                            /\ \A j \in valued : series[j].v = series[k].v => k <= j
            IN Num(labels[first])

\* most_common_magnitude: the idxmax of the counts themselves.
MostCommonMagnitude(cat) ==
    LET counts == GroupCount(cat)
    IN IdxMax(GroupIndex(cat), [k \in DOMAIN counts |-> Num(counts[k])], FALSE)

\* inflection_magnitude, the value maximum_curvature returns (or the exception).
InflectionMagnitude(cat, raises) ==
    IdxMax(GroupIndex(cat), DistributionDerivative(cat), raises)

MaximumCurvature(plot, verbose) ==
    /\ phase = "constructed"
    /\ mcCalls < MaxCalls
    /\ LET inflection_magnitude == InflectionMagnitude(catalog, allNaRaises)
       IN /\ mcResult' = inflection_magnitude
          /\ figures' = IF plot /\ inflection_magnitude.kind \notin Exceptions
                        THEN figures \cup {"MaximumCuvatureInflectionPoint"}
                        ELSE figures
    /\ mcCalls' = mcCalls + 1
    /\ UNCHANGED <<phase, error, catalog, delta_magnitude, magnitudes_in_catalog,
                   cumulative_magnitude_frequency, allNaRaises, fit, gfResult,
                   gfCalls, seed, residuals>>

(***************************************************************************)
(* Catalog.goodness_of_fit_test                                            *)
(***************************************************************************)
\* Mutant of TestedMagnitudes: the sweep steps downwards.
TestedMagnitudesDescending(estimation) ==
    [i \in 1..NumCandidates |->
        IF estimation.kind = "num"
        THEN Num(estimation.v - 4 * Tenth - ((i - 1) - 1) * Tenth)
        ELSE NaN]

\* tested_magnitudes = max_curvature_estimation - 0.4 + (np.arange(15) - 1) / 10;
\* entry i here is entry i - 1 of the array.
TestedMagnitudes(estimation) ==
    [i \in 1..NumCandidates |->
        IF estimation.kind = "num"
        THEN Num(estimation.v - 4 * Tenth + ((i - 1) - 1) * Tenth)
        ELSE NaN]

\* catalog_above_tested_magnitude: the rows with
\* Magnitude > tested_magnitudes[i] - delta_magnitude / 2 (none when it is nan).
CatalogAbove(cat, tested, dm) ==
    SelectSeq(cat, LAMBDA m : /\ tested.kind = "num"
                              /\ m.kind = "num"
                              /\ 2 * m.v > 2 * tested.v - dm)

\* 2 * len(sub) * (np.mean(sub) - (tested - delta_magnitude / 2)): the denominator
\* of b_value_gr, scaled to an integer.
BValueDenominator(sub, tested, dm) ==
    2 * SumSeq([k \in DOMAIN sub |-> sub[k].v]) - Len(sub) * (2 * tested.v - dm)

\* b_value_gr: nan when the mean is that of no row, inf on a zero denominator,
\* else a finite number (kept as its scaled denominator).
BValue(sub, tested, dm) ==
    IF sub = <<>> THEN NaN
    ELSE IF BValueDenominator(sub, tested, dm) = 0 THEN PosInf
    ELSE Num(BValueDenominator(sub, tested, dm))

\* index_of_magnitude_above_tested = np.where(magnitudes_in_catalog >= tested)[0]
IndexAbove(grid, tested) ==
    SortedSeq({k \in DOMAIN grid : tested.kind = "num" /\ grid[k] >= tested.v})

\* residuals[i]: 100 * sum |obs - model| / sum obs over the bins at or above the
\* cutoff.  No bin: 0.0 / 0.0, nan.  No finite b value: the model is nan.  Bins
\* but no event counted in them: a positive number over 0, inf.  Otherwise a
\* finite number, whose value the float arithmetic decides (level).
Residual(cat, grid, frequency, tested, dm, level) ==
    LET index == IndexAbove(grid, tested)
        observed == [k \in DOMAIN index |-> frequency[index[k]]]
        b_value_gr == BValue(CatalogAbove(cat, tested, dm), tested, dm)
    IN IF index = <<>> THEN NaN
       ELSE IF b_value_gr.kind # "num" THEN NaN
       ELSE IF SumSeq(observed) = 0 THEN PosInf
       ELSE Num(level)

Residuals(cat, grid, frequency, tested_magnitudes, dm, levels) ==
    [i \in 1..NumCandidates |->
        Residual(cat, grid, frequency, tested_magnitudes[i], dm, levels[i])]

\* Mutant of LowResidualIndex: a strict comparison.
LowResidualIndexStrict(res, threshold) ==
    SortedSeq({i \in DOMAIN res : res[i].kind = "num" /\ res[i].v < threshold})

\* np.where(residuals <= threshold)[0]
LowResidualIndex(res, threshold) ==
    SortedSeq({i \in DOMAIN res : res[i].kind = "num" /\ res[i].v <= threshold})

\* completeness_magnitude: the first candidate within 5, else the first within
\* 10, else the maximum curvature estimate.
CompletenessMagnitude(res, tested_magnitudes, estimation) ==
    LET low95 == LowResidualIndex(res, LowResidual95)
        low90 == LowResidualIndex(res, LowResidual90)
    IN IF Len(low95) # 0 THEN tested_magnitudes[low95[1]]
       ELSE IF Len(low90) # 0 THEN tested_magnitudes[low90[1]]
       ELSE estimation

\* Mutant of GoodnessOfFitTest: the sub-catalog of the sweep is assigned to
\* self.catalog, which is left holding the last one.
GoodnessOfFitTestRebindsCatalog(plot) ==
    /\ phase = "constructed"
    /\ gfCalls < MaxCalls
    /\ LET max_curvature_estimation == InflectionMagnitude(catalog, allNaRaises)
           tested_magnitudes == TestedMagnitudes(max_curvature_estimation)
           res == Residuals(catalog, magnitudes_in_catalog,
                            cumulative_magnitude_frequency, tested_magnitudes,
                            delta_magnitude, fit)
       IN /\ seed' = max_curvature_estimation
          /\ IF max_curvature_estimation.kind \in Exceptions
             THEN /\ gfResult' = max_curvature_estimation
                  /\ UNCHANGED <<residuals, figures, catalog>>
             ELSE /\ residuals' = res
                  /\ catalog' = CatalogAbove(catalog, tested_magnitudes[NumCandidates],
                                             delta_magnitude)
                  /\ gfResult' = CompletenessMagnitude(res, tested_magnitudes,
                                                       max_curvature_estimation)
                  /\ figures' = IF plot THEN figures \cup {"GoodnessOfFitResidual"}
                                ELSE figures
    /\ gfCalls' = gfCalls + 1
    /\ UNCHANGED <<phase, error, delta_magnitude, magnitudes_in_catalog,
                   cumulative_magnitude_frequency, allNaRaises, fit, mcResult, mcCalls>>

GoodnessOfFitTest(plot) ==
    /\ phase = "constructed"
    /\ gfCalls < MaxCalls
    /\ LET max_curvature_estimation == InflectionMagnitude(catalog, allNaRaises)
           tested_magnitudes == TestedMagnitudes(max_curvature_estimation)
           res == Residuals(catalog, magnitudes_in_catalog,
                            cumulative_magnitude_frequency, tested_magnitudes,
                            delta_magnitude, fit)
       IN /\ seed' = max_curvature_estimation
          /\ IF max_curvature_estimation.kind \in Exceptions
             THEN \* the exception of maximum_curvature leaves the method
                  /\ gfResult' = max_curvature_estimation
                  /\ UNCHANGED <<residuals, figures>>
             ELSE /\ residuals' = res
                  /\ gfResult' = CompletenessMagnitude(res, tested_magnitudes,
                                                       max_curvature_estimation)
                  /\ figures' = IF plot THEN figures \cup {"GoodnessOfFitResidual"}
                                ELSE figures
    /\ gfCalls' = gfCalls + 1
    /\ UNCHANGED <<phase, error, catalog, delta_magnitude, magnitudes_in_catalog,
                   cumulative_magnitude_frequency, allNaRaises, fit, mcResult, mcCalls>>

Init ==
    /\ phase = "new"
    /\ error = "none"
    /\ catalog \in Catalogs
    /\ delta_magnitude \in DeltaMagnitudes
    /\ magnitudes_in_catalog = <<>>
    /\ cumulative_magnitude_frequency = <<>>
    /\ allNaRaises \in BOOLEAN
    /\ fit = [i \in 1..NumCandidates |-> 12]
    /\ mcResult = NoCall
    /\ gfResult = NoCall
    /\ mcCalls = 0
    /\ gfCalls = 0
    /\ seed = NoCall
    /\ residuals = <<>>
    /\ figures = {}

Next ==
    \/ Construct
    \/ \E plot \in BOOLEAN, verbose \in BOOLEAN : MaximumCurvature(plot, verbose)
    \/ \E plot \in BOOLEAN : GoodnessOfFitTest(plot)

Spec == Init /\ [][Next]_vars

(***************************************************************************)
(* The choice of the completeness magnitude (the end of                    *)
(* goodness_of_fit_test) as a function of the residuals: a second          *)
(* specification draws the residuals and the maximum curvature estimate    *)
(* from bounded sets and applies the choice to them.                       *)
(***************************************************************************)
ResidualLevels == {Num(3), Num(5), Num(7), Num(10), Num(12), NaN, PosInf}

Estimations == {Num(100), Num(130)}

\* Residual vectors: one value everywhere but at two candidates.
ResidualVectors ==
    {[i \in 1..NumCandidates |-> IF i = p THEN x ELSE IF i = q THEN y ELSE rest] :
        p \in 1..NumCandidates, q \in 1..NumCandidates,
        x \in ResidualLevels, y \in ResidualLevels, rest \in {Num(12), NaN}}

InitSelect ==
    /\ phase = "select"
    /\ error = "none"
    /\ catalog = <<>>
    /\ delta_magnitude = 10
    /\ magnitudes_in_catalog = <<>>
    /\ cumulative_magnitude_frequency = <<>>
    /\ allNaRaises = FALSE
    /\ fit = [i \in 1..NumCandidates |-> 12]
    /\ mcResult = NoCall
    /\ gfResult = NoCall
    /\ mcCalls = 0
    /\ gfCalls = 0
    /\ seed \in Estimations
    /\ residuals \in ResidualVectors
    /\ figures = {}

ChooseCompleteness ==
    /\ phase = "select"
    /\ gfResult' = CompletenessMagnitude(residuals, TestedMagnitudes(seed), seed)
    /\ phase' = "selected"
    /\ UNCHANGED <<error, catalog, delta_magnitude, magnitudes_in_catalog,
                   cumulative_magnitude_frequency, allNaRaises, fit, mcResult,
                   mcCalls, gfCalls, seed, residuals, figures>>

NextSelect ==
    \/ ChooseCompleteness

SpecSelect == InitSelect /\ [][NextSelect]_vars

(***************************************************************************)
(* Properties.                                                             *)
(***************************************************************************)
RoundedMagnitudes == {catalog[i].v : i \in DOMAIN catalog}

MinOf(S) == CHOOSE x \in S : \A y \in S : x <= y

MaxOf(S) == CHOOSE x \in S : \A y \in S : y <= x

Within(threshold) ==
    {i \in 1..NumCandidates : residuals[i].kind = "num" /\ residuals[i].v <= threshold}

\* C1: for a bin width > 0 the constructed grid is strictly increasing with the
\* constant step delta_magnitude, starts at the smallest and ends at the largest
\* rounded catalog magnitude, and every rounded catalog magnitude is a grid value.
C1_GridSpansRoundedCatalog ==
    (phase = "constructed" /\ delta_magnitude > 0) =>
        LET grid == magnitudes_in_catalog
        IN /\ Len(grid) >= 1
           /\ \A k \in 1..(Len(grid) - 1) :
                 grid[k + 1] > grid[k] /\ grid[k + 1] - grid[k] = delta_magnitude
           /\ grid[1] = MinOf(RoundedMagnitudes)
           /\ grid[Len(grid)] = MaxOf(RoundedMagnitudes)
           /\ \A r \in RoundedMagnitudes : \E k \in DOMAIN grid : grid[k] = r

\* C2: after construction cumulative_magnitude_frequency has one entry per grid
\* value g, the number of events whose rounded magnitude exceeds
\* g - delta_magnitude / 2, and never increases along the grid.
C2_CumulativeFrequencyNonIncreasing ==
    phase = "constructed" =>
        LET grid == magnitudes_in_catalog
            frequency == cumulative_magnitude_frequency
        IN /\ Len(frequency) = Len(grid)
           /\ \A k \in DOMAIN grid :
                 frequency[k] = Len(SelectSeq(catalog,
                     LAMBDA m : 2 * m.v > 2 * grid[k] - delta_magnitude))
           /\ \A k \in 1..(Len(frequency) - 1) : frequency[k + 1] <= frequency[k]

\* C3: the derivative cumsum().diff() equals the event count of every bin, and
\* maximum_curvature returns the magnitude with the highest event count, the
\* lowest such magnitude on a tie.
C3_MaximumCurvatureIsMode ==
    (phase = "constructed" /\ mcResult # NoCall) =>
        /\ \A k \in DOMAIN GroupCount(catalog) :
              DistributionDerivative(catalog)[k] = Num(GroupCount(catalog)[k])
        /\ mcResult = MostCommonMagnitude(catalog)

\* C4: the magnitude chosen from a residual vector is the candidate of smallest
\* index with residual <= 5 if there is one, else the candidate of smallest index
\* with residual <= 10 if there is one, else the maximum curvature estimate.
C4_FirstLowResidualElseSeed ==
    phase = "selected" =>
        LET tested == TestedMagnitudes(seed)
        IN gfResult = IF Within(5) # {} THEN tested[MinOf(Within(5))]
                      ELSE IF Within(10) # {} THEN tested[MinOf(Within(10))]
                      ELSE seed

\* C4 witness: no residual is within 5, one is within 10, and it is not the first
\* candidate's: the 90% search picked a later candidate.
C4_Witness ==
    /\ phase = "selected"
    /\ Within(5) = {}
    /\ Within(10) # {}
    /\ MinOf(Within(10)) > 1
    /\ gfResult = TestedMagnitudes(seed)[MinOf(Within(10))]

\* C5 as claimed: when some residual is within 5, the magnitude of the 95% search
\* is at most the magnitude of the 90% search.
C5_Search95NotAboveSearch90 ==
    (phase = "selected" /\ Len(LowResidualIndex(residuals, LowResidual95)) # 0) =>
        LET tested == TestedMagnitudes(seed)
            first95 == LowResidualIndex(residuals, LowResidual95)[1]
            first90 == LowResidualIndex(residuals, LowResidual90)[1]
        IN tested[first95].v <= tested[first90].v

\* C5 as amended: when some residual is within 5, the 90% search finds a candidate
\* too, and its magnitude is at most the magnitude of the 95% search.
C5_Search90NotAboveSearch95 ==
    (phase = "selected" /\ Len(LowResidualIndex(residuals, LowResidual95)) # 0) =>
        LET tested == TestedMagnitudes(seed)
            first95 == LowResidualIndex(residuals, LowResidual95)[1]
            low90 == LowResidualIndex(residuals, LowResidual90)
        IN Len(low90) # 0 /\ tested[low90[1]].v <= tested[first95].v

\* C5 witness: the two searches pick different candidates.
C5_Witness ==
    /\ phase = "selected"
    /\ Within(5) # {}
    /\ MinOf(Within(10)) < MinOf(Within(5))

\* C6: with every event at one magnitude M, maximum_curvature returns M, and
\* goodness_of_fit_test returns the seed M through the fallback without raising,
\* no candidate at or above M having a b value.
C6_SingleMagnitudeFallsBackToM ==
    (phase = "constructed" /\ Cardinality(RoundedMagnitudes) = 1) =>
        LET M == MinOf(RoundedMagnitudes)
            tested == TestedMagnitudes(Num(M))
        IN /\ mcResult # NoCall => mcResult = Num(M)
           /\ gfResult # NoCall =>
                 /\ seed = Num(M)
                 /\ gfResult = seed
                 /\ \A i \in 1..NumCandidates :
                       tested[i].v >= M =>
                           /\ BValue(CatalogAbove(catalog, tested[i], delta_magnitude),
                                     tested[i], delta_magnitude).kind # "num"
                           /\ residuals[i].kind # "num"

\* C7: goodness_of_fit_test on a constructed instance never raises and sweeps
\* all 15 candidates; it returns one of the candidates seed - 0.5 .. seed + 0.9 or
\* the seed; a candidate it returns for its low residual has events above the
\* cutoff, a grid bin at or above it, and a finite residual.
C7_GoodnessOfFitNeverRaises ==
    (phase = "constructed" /\ gfResult # NoCall) =>
        /\ gfResult.kind \notin Exceptions
        /\ Len(residuals) = 15
        /\ \/ gfResult = seed
           \/ \E i \in 0..14 : gfResult = Num(seed.v - 50 + i * 10)
        /\ Within(10) # {} =>
              \E i \in 1..NumCandidates :
                 /\ gfResult = TestedMagnitudes(seed)[i]
                 /\ residuals[i].kind = "num"
                 /\ CatalogAbove(catalog, gfResult, delta_magnitude) # <<>>
                 /\ IndexAbove(magnitudes_in_catalog, gfResult) # <<>>

\* C8: a construction with delta_magnitude <= 0 fails with InvalidConfigError: no
\* instance with such a bin width exists.
C8_NonPositiveBinWidthRejected ==
    (phase # "new" /\ phase # "select" /\ phase # "selected" /\ delta_magnitude <= 0) =>
        (phase = "failed" /\ error = "InvalidConfigError")

C10_CallsLeaveInstanceUnchanged ==
    [][phase = "constructed" =>
          /\ instance' = instance
          /\ mcResult # NoCall => mcResult' = mcResult
          /\ gfResult # NoCall => gfResult' = gfResult]_vars

\* C10 witness: each method has been called twice, goodness_of_fit_test returning
\* a candidate other than the seed.
C10_Witness ==
    /\ phase = "constructed"
    /\ mcCalls >= 2
    /\ gfCalls >= 2
    /\ gfResult.kind = "num"
    /\ gfResult # seed
    /\ "GoodnessOfFitResidual" \in figures

====
